---- MODULE Spec2Model ----
(***************************************************************************)
(* Model of the helpers of github.com/halimath/httputils.                   *)
(*                                                                         *)
(* internal/valuecomponents: ParseValueList and its helpers.  A Go string   *)
(* is a sequence of bytes; a byte is written as a one-character string,     *)
(* and the two bytes of U+00A0 (NO-BREAK SPACE, a unicode.IsSpace rune) as  *)
(* "xC2" and "xA0".  The cursor i is a byte index, as in the source.        *)
(***************************************************************************)
EXTENDS Integers, Sequences, FiniteSets, TLC

(***************************************************************************)
(* Bounds of the model.                                                    *)
(***************************************************************************)
\* longest input of the exhaustive specification, in bytes
MaxLen == 4
\* longest delimiter skeleton of the whitespace-padding specification
MaxBase == 3
\* whitespace bytes put before or after one delimiter
MaxPad == 1
\* elements (tokens and k=v pairs) of a generated header value
MaxElems == 3
\* longest input of the specification that parses every input twice
MaxTwiceLen == 3
\* longest content of a generated quoted string, in bytes
MaxBody == 3
\* calls of ParseValueList in flight
MaxCalls == 2
MaxConcLen == 3
MaxFwdAtoms == 2
MaxFwdBefore == 1
MaxMiddlewares == 3
MaxWrites == 3
MaxTargets == 2
MaxOpts == 2
MaxRequests == 3
MaxIds == 4
MaxHandlerSteps == 2

(***************************************************************************)
(* Bytes and runes.                                                        *)
(***************************************************************************)
Quote == "\""
Backslash == "\\"
TokenBytes == {"a", "b"}
DelimiterBytes == {",", ";", "="}
Bytes == TokenBytes \cup DelimiterBytes \cup {" ", Quote, Backslash, "xC2", "xA0"}

RuneError == "RuneError"
NBSP == "U+00A0"

\* s[i:] and s[:i] of a Go string, i counted from 0
Slice(str, i) == SubSeq(str, i + 1, Len(str))
Prefix(str, i) == SubSeq(str, 1, i)

\* utf8.DecodeRuneInString: the first rune of str and its width in bytes;
\* (RuneError, 0) for the empty string, (RuneError, 1) for an invalid encoding
DecodeRuneInString(str) ==
    IF Len(str) = 0 THEN [r |-> RuneError, w |-> 0]
    ELSE IF str[1] = "xC2"
         THEN IF Len(str) >= 2 /\ str[2] = "xA0"
              THEN [r |-> NBSP, w |-> 2]
              ELSE [r |-> RuneError, w |-> 1]
    ELSE IF str[1] = "xA0" THEN [r |-> RuneError, w |-> 1]
    ELSE [r |-> str[1], w |-> 1]

\* unicode.IsSpace
IsSpace(r) == r \in {" ", NBSP}

\* the token characters that occur in some input: those of the exhaustive
\* inputs and the letters of the Forwarded parameters
TokenChars == TokenBytes \cup {"h", "o", "s", "t", "p", "r", "H", "P"}

\* isTokenChar: strings.ContainsRune(TokenChars, r)
isTokenChar(r) == r \in TokenChars

RECURSIVE cwLoop(_, _)
cwLoop(str, i) ==
    IF i >= Len(str) THEN i
    ELSE LET d == DecodeRuneInString(Slice(str, i))
         IN  IF ~IsSpace(d.r) THEN i ELSE cwLoop(str, i + d.w)

\* consumeWhitespace with the loop dropped: at most one rune is consumed
consumeOneWhitespace(str) ==
    LET d == DecodeRuneInString(str) IN IF IsSpace(d.r) THEN d.w ELSE 0

\* consumeWhitespace: the number of leading whitespace bytes of str
consumeWhitespace(str) == cwLoop(str, 0)

RECURSIVE ptLoop(_, _)
ptLoop(str, i) ==
    IF i >= Len(str) THEN str
    ELSE LET d == DecodeRuneInString(Slice(str, i))
         IN  IF ~isTokenChar(d.r) THEN Prefix(str, i) ELSE ptLoop(str, i + d.w)

\* a ParseToken that stops after the first rune
ParseTokenOneRune(str) ==
    LET d == DecodeRuneInString(str)
    IN  IF Len(str) = 0 \/ ~isTokenChar(d.r) THEN <<>> ELSE Prefix(str, d.w)

\* ParseToken: the leading run of token characters of str
ParseToken(str) == ptLoop(str, 0)

\* the error values; kind "nil" is Go's nil error
NoError == [kind |-> "nil", c |-> "", at |-> <<>>]
NotQuotedError(v) == [kind |-> "not a quoted string", c |-> "", at |-> v]
DelimiterError(c, rest) == [kind |-> "unexpected delimiter", c |-> c, at |-> rest]

RECURSIVE pqLoop(_, _)
pqLoop(v, i) ==
    IF i >= Len(v) THEN [r |-> <<>>, err |-> NotQuotedError(v)]
    ELSE LET d == DecodeRuneInString(Slice(v, i))
         IN  IF d.r = Quote
             THEN [r |-> SubSeq(v, 2, i), err |-> NoError]
             ELSE pqLoop(v, i + d.w)

RECURSIVE pqEscLoop(_, _)
pqEscLoop(v, i) ==
    IF i >= Len(v) THEN [r |-> <<>>, err |-> NotQuotedError(v)]
    ELSE LET d == DecodeRuneInString(Slice(v, i))
         IN  IF d.r = Quote
             THEN [r |-> SubSeq(v, 2, i), err |-> NoError]
             ELSE IF d.r = Backslash
             THEN pqEscLoop(v, i + d.w + DecodeRuneInString(Slice(v, i + d.w)).w)
             ELSE pqEscLoop(v, i + d.w)

\* ParseQuotedString with a backslash escaping the rune after it
ParseQuotedStringEscaping(v) ==
    LET d == DecodeRuneInString(v)
    IN  IF d.r # Quote THEN [r |-> <<>>, err |-> NoError]
        ELSE pqEscLoop(v, d.w)

\* a ParseQuotedString that skips the whitespace before the opening quote
ParseQuotedStringTrimmed(v) ==
    LET w == Slice(v, consumeWhitespace(v))
        d == DecodeRuneInString(w)
    IN  IF d.r # Quote THEN [r |-> <<>>, err |-> NoError]
        ELSE pqLoop(w, d.w)

\* ParseQuotedString: (content, error); ("", nil) when v starts with no quote
ParseQuotedString(v) ==
    LET d == DecodeRuneInString(v)
    IN  IF d.r # Quote THEN [r |-> <<>>, err |-> NoError]
        ELSE pqLoop(v, d.w)

\* tokenOrQuotedString: (element, bytes consumed, error)
tokenOrQuotedString(str) ==
    LET d == DecodeRuneInString(str)
    IN  IF d.r = Quote
        THEN LET q == ParseQuotedString(str)
             IN  [v |-> q.r, l |-> Len(q.r) + 2, err |-> q.err]
        ELSE LET t == ParseToken(str)
             IN  [v |-> t, l |-> Len(t), err |-> NoError]

(***************************************************************************)
(* Values.                                                                 *)
(***************************************************************************)
EmptyPairs == [k \in {} |-> <<>>]

\* Value{Pairs: make(map[string]string)}
NewValue == [Primary |-> <<>>, Pairs |-> EmptyPairs]

\* val.Primary = v
SetPrimary(val, v) == [val EXCEPT !.Primary = v]

\* a store that leaves a key that is already bound as it is
StorePairKeepFirst(val, key, v) ==
    [val EXCEPT !.Pairs = [k \in DOMAIN val.Pairs \cup {key} |->
                              IF k \in DOMAIN val.Pairs THEN val.Pairs[k] ELSE v]]

\* val.Pairs[key] = v
StorePair(val, key, v) ==
    [val EXCEPT !.Pairs = [k \in DOMAIN val.Pairs \cup {key} |->
                              IF k = key THEN v ELSE val.Pairs[k]]]

\* return vals, err: the Values parsed so far are handed out with the error
ReturnErrorWithPartial(vals, e) == [ret |-> vals, err |-> e]

\* return nil, err
ReturnError(vals, e) == [ret |-> <<>>, err |-> e]

\* return vals, nil
ReturnList(vals) == [ret |-> vals, err |-> NoError]

(***************************************************************************)
(* ParseValueList.  The calls in flight are numbered 1..Len(s); every call *)
(* has its own input s[p], cursor i[p], list vals[p] and Value val[p].      *)
(* pc[p] is the call's position: "outer" at the top of the outer loop,      *)
(* "inner" at the top of the inner loop, "done" after a return and          *)
(* "panic" after a slice out of range.                                     *)
(***************************************************************************)
VARIABLES s, i, vals, val, pc, ret, err

\* the state of the packages that are modelled further down: a request in
\* requesturi.Middleware (fwd), a handler built by Compose (comp), a
\* buffered response on its way to a writer (resp), the traffic of the
\* session middleware (sess) and a request in cors.Middleware (cors).  Each
\* is a record whose field pc is "off" while the package is not running.
VARIABLES fwd, comp, resp, sess, cors

others == <<fwd, comp, resp, sess, cors>>
Off == [pc |-> "off"]

vars == <<s, i, vals, val, pc, ret, err, fwd, comp, resp, sess, cors>>

Calls == DOMAIN s

\* an outcome of one pass through the body of the inner loop
Outcome(kind, j, v, e) == [kind |-> kind, i |-> j, val |-> v, err |-> e]

\* Terminator without the test for the end of the input
TerminatorNoEndTest(str, j, c, l, v) ==
    IF c = ","
    THEN Outcome("break", j + l, v, NoError)
    ELSE IF c = ";"
    THEN Outcome("continue", j + l, v, NoError)
    ELSE Outcome("error", j, v, DelimiterError(c, Slice(str, j)))

\* the end of the inner loop body: the cursor is at i, c and l are the rune
\* last decoded and its width
Terminator(str, j, c, l, v) ==
    IF c = "," \/ j >= Len(str)
    THEN Outcome("break", j + l, v, NoError)
    ELSE IF c = ";"
    THEN Outcome("continue", j + l, v, NoError)
    ELSE Outcome("error", j, v, DelimiterError(c, Slice(str, j)))

\* the branch c == '=': the cursor j is at the '=' of width l, key was read
PairBranch(str, j, l, key, v) ==
    LET j1 == j + l
        j2 == j1 + consumeWhitespace(Slice(str, j1))
        e  == tokenOrQuotedString(Slice(str, j2))
        j3 == j2 + e.l
        j4 == j3 + consumeWhitespace(Slice(str, j3))
        d  == DecodeRuneInString(Slice(str, j4))
    IN  IF j1 > Len(str) THEN Outcome("panic", j1, v, NoError)
        ELSE IF e.err # NoError THEN Outcome("error", j2, v, e.err)
        ELSE IF j3 > Len(str) THEN Outcome("panic", j3, v, NoError)
        ELSE Terminator(str, j4, d.r, d.w, StorePair(v, key, e.v))

\* the branch c != '=': the element read is the primary, and the cursor
\* moves past the rune decoded at j
PrimaryBranch(str, j, c, l, elem, v) ==
    Terminator(str, j + l, c, l, SetPrimary(v, elem))

\* one pass through the body of the inner loop, from cursor j
InnerBody(str, j, v) ==
    LET j1 == j + consumeWhitespace(Slice(str, j))
        e  == tokenOrQuotedString(Slice(str, j1))
        j2 == j1 + e.l
        j3 == j2 + consumeWhitespace(Slice(str, j2))
        d  == DecodeRuneInString(Slice(str, j3))
    IN  IF j > Len(str) THEN Outcome("panic", j, v, NoError)
        ELSE IF j1 >= Len(str) THEN Outcome("breakOuter", j1, v, NoError)
        ELSE IF e.err # NoError THEN Outcome("error", j1, v, e.err)
        ELSE IF j2 > Len(str) THEN Outcome("panic", j2, v, NoError)
        ELSE IF d.r # "=" THEN PrimaryBranch(str, j3, d.r, d.w, e.v, v)
        ELSE PairBranch(str, j3, d.w, e.v, v)

\* the calls ss[1], .., ss[n] have been entered
Start(ss) ==
    /\ s = ss
    /\ i = [p \in DOMAIN ss |-> 0]
    /\ vals = [p \in DOMAIN ss |-> <<>>]
    /\ val = [p \in DOMAIN ss |-> NewValue]
    /\ pc = [p \in DOMAIN ss |-> "outer"]
    /\ ret = [p \in DOMAIN ss |-> <<>>]
    /\ err = [p \in DOMAIN ss |-> NoError]
    /\ fwd = Off /\ comp = Off /\ resp = Off /\ sess = Off /\ cors = Off

\* a return of call p
Return(p, r) ==
    /\ pc' = [pc EXCEPT ![p] = "done"]
    /\ ret' = [ret EXCEPT ![p] = r.ret]
    /\ err' = [err EXCEPT ![p] = r.err]

\* OuterLoop without Value{Pairs: make(..)}: the Value of the unit before is
\* used again
OuterLoopKeepValue(p) ==
    /\ p \in Calls
    /\ UNCHANGED others
    /\ pc[p] = "outer"
    /\ IF i[p] >= Len(s[p])
       THEN /\ Return(p, ReturnList(vals[p]))
            /\ UNCHANGED <<s, i, vals, val>>
       ELSE /\ pc' = [pc EXCEPT ![p] = "inner"]
            /\ UNCHANGED <<s, i, vals, val, ret, err>>

\* OuterLoop with one Value shared by all calls: a unit starts from the
\* Value another call wrote last
OuterLoopSharedValue(p) ==
    /\ p \in Calls
    /\ UNCHANGED others
    /\ pc[p] = "outer"
    /\ IF i[p] >= Len(s[p])
       THEN /\ Return(p, ReturnList(vals[p]))
            /\ UNCHANGED <<s, i, vals, val>>
       ELSE /\ \E q \in Calls :
                 /\ q # p \/ Calls = {p}
                 /\ val' = [val EXCEPT ![p] = val[q]]
            /\ pc' = [pc EXCEPT ![p] = "inner"]
            /\ UNCHANGED <<s, i, vals, ret, err>>

\* the top of the outer loop: leave it at the end of the input, or make the
\* Value of the next unit
OuterLoop(p) ==
    /\ p \in Calls
    /\ UNCHANGED others
    /\ pc[p] = "outer"
    /\ IF i[p] >= Len(s[p])
       THEN /\ Return(p, ReturnList(vals[p]))
            /\ UNCHANGED <<s, i, vals, val>>
       ELSE /\ val' = [val EXCEPT ![p] = NewValue]
            /\ pc' = [pc EXCEPT ![p] = "inner"]
            /\ UNCHANGED <<s, i, vals, ret, err>>

\* InnerLoop with one cursor for all calls, kept where call 1 keeps its own
InnerLoopSharedCursor(p) ==
    /\ p \in Calls
    /\ UNCHANGED others
    /\ pc[p] = "inner"
    /\ LET o == InnerBody(s[p], i[1], val[p])
       IN  /\ i' = [i EXCEPT ![1] = o.i, ![p] = o.i]
           /\ val' = [val EXCEPT ![p] = o.val]
           /\ CASE o.kind = "breakOuter" ->
                     /\ Return(p, ReturnList(vals[p]))
                     /\ UNCHANGED vals
                [] o.kind = "error" ->
                     /\ Return(p, ReturnError(vals[p], o.err))
                     /\ UNCHANGED vals
                [] o.kind = "break" ->
                     /\ vals' = [vals EXCEPT ![p] = Append(@, o.val)]
                     /\ pc' = [pc EXCEPT ![p] = "outer"]
                     /\ UNCHANGED <<ret, err>>
                [] o.kind = "continue" ->
                     /\ pc' = [pc EXCEPT ![p] = "inner"]
                     /\ UNCHANGED <<vals, ret, err>>
                [] o.kind = "panic" ->
                     /\ pc' = [pc EXCEPT ![p] = "panic"]
                     /\ UNCHANGED <<vals, ret, err>>
    /\ UNCHANGED s

\* InnerLoop with a `continue` that goes back to where the pass began
InnerLoopRescan(p) ==
    /\ p \in Calls
    /\ UNCHANGED others
    /\ pc[p] = "inner"
    /\ LET o == InnerBody(s[p], i[p], val[p])
       IN  /\ i' = [i EXCEPT ![p] = IF o.kind = "continue" THEN @ ELSE o.i]
           /\ val' = [val EXCEPT ![p] = o.val]
           /\ CASE o.kind = "breakOuter" ->
                     /\ Return(p, ReturnList(vals[p]))
                     /\ UNCHANGED vals
                [] o.kind = "error" ->
                     /\ Return(p, ReturnError(vals[p], o.err))
                     /\ UNCHANGED vals
                [] o.kind = "break" ->
                     /\ vals' = [vals EXCEPT ![p] = Append(@, o.val)]
                     /\ pc' = [pc EXCEPT ![p] = "outer"]
                     /\ UNCHANGED <<ret, err>>
                [] o.kind = "continue" ->
                     /\ pc' = [pc EXCEPT ![p] = "inner"]
                     /\ UNCHANGED <<vals, ret, err>>
                [] o.kind = "panic" ->
                     /\ pc' = [pc EXCEPT ![p] = "panic"]
                     /\ UNCHANGED <<vals, ret, err>>
    /\ UNCHANGED s

\* one pass through the inner loop, with the append that follows its break
InnerLoop(p) ==
    /\ p \in Calls
    /\ UNCHANGED others
    /\ pc[p] = "inner"
    /\ LET o == InnerBody(s[p], i[p], val[p])
       IN  /\ i' = [i EXCEPT ![p] = o.i]
           /\ val' = [val EXCEPT ![p] = o.val]
           /\ CASE o.kind = "breakOuter" ->
                     /\ Return(p, ReturnList(vals[p]))
                     /\ UNCHANGED vals
                [] o.kind = "error" ->
                     /\ Return(p, ReturnError(vals[p], o.err))
                     /\ UNCHANGED vals
                [] o.kind = "break" ->
                     /\ vals' = [vals EXCEPT ![p] = Append(@, o.val)]
                     /\ pc' = [pc EXCEPT ![p] = "outer"]
                     /\ UNCHANGED <<ret, err>>
                [] o.kind = "continue" ->
                     /\ pc' = [pc EXCEPT ![p] = "inner"]
                     /\ UNCHANGED <<vals, ret, err>>
                [] o.kind = "panic" ->
                     /\ pc' = [pc EXCEPT ![p] = "panic"]
                     /\ UNCHANGED <<vals, ret, err>>
    /\ UNCHANGED s

Next == \E p \in 1..MaxCalls : OuterLoop(p) \/ InnerLoop(p)

\* every byte string of at most n bytes
StringsUpTo(alphabet, n) == UNION {[1..k -> alphabet] : k \in 0..n}

\* the inputs of the exhaustive specification
Inputs == StringsUpTo(Bytes, MaxLen)

\* one call, of any input
Init == \E x \in Inputs : Start(<<x>>)

Spec == Init /\ [][Next]_vars

\* two calls with the same input
InitTwice == \E x \in StringsUpTo(Bytes, MaxTwiceLen) : Start(<<x, x>>)

SpecTwice == InitTwice /\ [][Next]_vars

Done(p) == pc[p] = "done"
Failed(p) == Done(p) /\ err[p] # NoError
Succeeded(p) == Done(p) /\ err[p] = NoError

(***************************************************************************)
(* Generated inputs.                                                       *)
(***************************************************************************)
Spaces(n) == [k \in 1..n |-> " "]

\* the delimiter d with b spaces before it and a spaces after it
Padded(d, b, a) == Spaces(b) \o <<d>> \o Spaces(a)

RECURSIVE PadFrom(_, _, _, _)
PadFrom(x, k, before, after) ==
    IF k > Len(x) THEN <<>>
    ELSE (IF x[k] \in DelimiterBytes
          THEN Padded(x[k], before[k], after[k])
          ELSE <<x[k]>>) \o PadFrom(x, k + 1, before, after)

\* x with before[k] spaces put before and after[k] spaces after its k-th byte
Pad(x, before, after) == PadFrom(x, 1, before, after)

\* strings of token and delimiter bytes, to be padded
Bases == StringsUpTo(TokenBytes \cup DelimiterBytes, MaxBase)

\* one call's input is the other's with whitespace added around delimiters
InitWs ==
    \E x \in Bases :
        \E before \in [1..Len(x) -> 0..MaxPad], after \in [1..Len(x) -> 0..MaxPad] :
            /\ \A k \in 1..Len(x) :
                   x[k] \notin DelimiterBytes => before[k] = 0 /\ after[k] = 0
            /\ Start(<<Pad(x, before, after), x>>)

SpecWs == InitWs /\ [][Next]_vars

\* header values as written by a well-behaved client: an element is <<t>>
\* (a token) or <<k, v>> (k=v), and two elements are separated by ';' (the
\* same unit) or ',' (the next unit), with or without a space on either side
Tokens == {<<b>> : b \in TokenBytes}
Elems == {<<t>> : t \in Tokens} \cup {<<k, v>> : k \in Tokens, v \in Tokens}
Pads == {<<>>, <<" ">>}

RenderElem(e, before, after) ==
    IF Len(e) = 1 THEN e[1] ELSE e[1] \o before \o <<"=">> \o after \o e[2]

RECURSIVE RenderFrom(_, _, _, _, _)
RenderFrom(es, seps, k, before, after) ==
    IF k = Len(es) THEN RenderElem(es[k], before, after)
    ELSE RenderElem(es[k], before, after) \o before \o <<seps[k]>> \o after
             \o RenderFrom(es, seps, k + 1, before, after)

\* the elements es, seps[k] standing between es[k] and es[k+1]
RenderHeader(es, seps, before, after) == RenderFrom(es, seps, 1, before, after)

\* one call, of a generated header
InitUnits ==
    \E n \in 1..MaxElems :
        \E es \in [1..n -> Elems], seps \in [1..(n - 1) -> {",", ";"}] :
            \E before \in Pads, after \in Pads :
                Start(<<RenderHeader(es, seps, before, after)>>)

SpecUnits == InitUnits /\ [][Next]_vars

\* one call, of a quoted string whose content holds no quote
InitQuoted ==
    \E body \in StringsUpTo(Bytes \ {Quote}, MaxBody) :
        Start(<< <<Quote>> \o body \o <<Quote>> >>)

SpecQuoted == InitQuoted /\ [][Next]_vars

(***************************************************************************)
(* Properties of ParseValueList.  The shapes of inputs are defined on the  *)
(* bytes of the input, independently of the parser's helpers.              *)
(***************************************************************************)
\* the result of call p as the caller sees it
Result(p) == [ret |-> ret[p], failed |-> err[p] # NoError]

IsToken(str) == Len(str) > 0 /\ \A k \in 1..Len(str) : str[k] \in TokenBytes

RECURSIVE OnlyWhitespace(_)
OnlyWhitespace(str) ==
    \/ Len(str) = 0
    \/ str[1] = " " /\ OnlyWhitespace(Tail(str))
    \/ Len(str) >= 2 /\ str[1] = "xC2" /\ str[2] = "xA0"
                     /\ OnlyWhitespace(Tail(Tail(str)))

RECURSIVE TrimLeft(_)
TrimLeft(str) ==
    IF Len(str) > 0 /\ str[1] = " " THEN TrimLeft(Tail(str)) ELSE str
RECURSIVE TrimRight(_)
TrimRight(str) ==
    IF Len(str) > 0 /\ str[Len(str)] = " "
    THEN TrimRight(SubSeq(str, 1, Len(str) - 1)) ELSE str
Trim(str) == TrimLeft(TrimRight(str))

\* the pieces of str between the occurrences of the byte d
RECURSIVE SplitOn(_, _)
SplitOn(str, d) ==
    IF \A k \in 1..Len(str) : str[k] # d THEN <<str>>
    ELSE LET k == CHOOSE n \in 1..Len(str) :
                      str[n] = d /\ \A m \in 1..(n - 1) : str[m] # d
         IN  <<SubSeq(str, 1, k - 1)>> \o SplitOn(SubSeq(str, k + 1, Len(str)), d)

\* a piece "k = v" of two tokens
IsPair(piece) ==
    LET kv == SplitOn(piece, "=")
    IN  Len(kv) = 2 /\ IsToken(Trim(kv[1])) /\ IsToken(Trim(kv[2]))
KeyOf(piece) == Trim(SplitOn(piece, "=")[1])
ValueOf(piece) == Trim(SplitOn(piece, "=")[2])

\* the map written by the pairs pieces[from..], a later binding of a key
\* replacing an earlier one
PairsWritten(pieces, from) ==
    [k \in {KeyOf(pieces[n]) : n \in from..Len(pieces)} |->
        LET last == CHOOSE n \in from..Len(pieces) :
                        /\ KeyOf(pieces[n]) = k
                        /\ \A m \in (n + 1)..Len(pieces) : KeyOf(pieces[m]) # k
        IN  ValueOf(pieces[last])]

NoOuterSpace(str) == Len(str) > 0 /\ str[1] # " " /\ str[Len(str)] # " "

\* t1 , t2 , .. , tn
IsTokenList(str) ==
    /\ NoOuterSpace(str)
    /\ LET ts == SplitOn(str, ",") IN \A k \in 1..Len(ts) : IsToken(Trim(ts[k]))
TokenListValues(str) ==
    LET ts == SplitOn(str, ",")
    IN  [k \in 1..Len(ts) |-> [Primary |-> Trim(ts[k]), Pairs |-> EmptyPairs]]

\* t ; k1 = v1 ; .. ; kn = vn with distinct keys
IsTokenWithParams(str) ==
    /\ NoOuterSpace(str)
    /\ \A k \in 1..Len(str) : str[k] # ","
    /\ LET ps == SplitOn(str, ";")
       IN  /\ IsToken(Trim(ps[1]))
           /\ \A k \in 2..Len(ps) : IsPair(ps[k])
           /\ \A k, m \in 2..Len(ps) : KeyOf(ps[k]) = KeyOf(ps[m]) => k = m
TokenWithParamsValues(str) ==
    LET ps == SplitOn(str, ";")
    IN  <<[Primary |-> Trim(ps[1]), Pairs |-> PairsWritten(ps, 2)]>>

\* k = v ; .. , k = v ; ..
IsPairUnits(str) ==
    /\ NoOuterSpace(str)
    /\ LET us == SplitOn(str, ",")
       IN  \A n \in 1..Len(us) :
               LET ps == SplitOn(us[n], ";") IN \A k \in 1..Len(ps) : IsPair(ps[k])
PairUnitsValues(str) ==
    LET us == SplitOn(str, ",")
    IN  [n \in 1..Len(us) |->
            [Primary |-> <<>>, Pairs |-> PairsWritten(SplitOn(us[n], ";"), 1)]]

\* str without the spaces that stand, alone or in a run, directly before or
\* after a delimiter
Removable(str, k) ==
    /\ str[k] = " "
    /\ \/ \E j \in 1..(k - 1) :
              str[j] \in DelimiterBytes /\ \A m \in (j + 1)..k : str[m] = " "
       \/ \E j \in (k + 1)..Len(str) :
              str[j] \in DelimiterBytes /\ \A m \in k..(j - 1) : str[m] = " "
RECURSIVE StripFrom(_, _)
StripFrom(str, k) ==
    IF k > Len(str) THEN <<>>
    ELSE (IF Removable(str, k) THEN <<>> ELSE <<str[k]>>) \o StripFrom(str, k + 1)
StripPadding(str) == StripFrom(str, 1)

\* C1: two inputs that differ only in the whitespace directly before or
\* after the delimiters ',', ';' and '=' yield the same error status and the
\* same ValueList.
C1_WhitespaceInsensitive ==
    \A p \in Calls, q \in Calls :
        Done(p) /\ Done(q) /\ StripPadding(s[p]) = StripPadding(s[q])
            => Result(p) = Result(q)

\* C2: non-empty tokens joined by ',' with any whitespace around each comma
\* parse without error to one Value per token, in order, with the token as
\* Primary and no pairs.
C2_TokenList ==
    \A p \in Calls :
        Done(p) /\ IsTokenList(s[p])
            => err[p] = NoError /\ ret[p] = TokenListValues(s[p])

\* C3: a token followed by semicolon-separated k=v parameters with distinct
\* keys parses to exactly one Value, with the token as Primary and exactly
\* the parameters as Pairs.
C3_TokenWithParams ==
    \A p \in Calls :
        Done(p) /\ IsTokenWithParams(s[p])
            => err[p] = NoError /\ ret[p] = TokenWithParamsValues(s[p])

\* C4: an input of k=v pairs, ';' between the pairs of a unit and ','
\* between units, parses to one Value per unit, in order, each with an
\* empty Primary and exactly the bindings written in its own unit.
C4_PairUnits ==
    \A p \in Calls :
        Done(p) /\ IsPairUnits(s[p])
            => err[p] = NoError /\ ret[p] = PairUnitsValues(s[p])

\* a parse of two units of pairs, the first with two keys, the second with
\* one key only
C4_Witness ==
    \E p \in Calls :
        /\ Succeeded(p) /\ IsPairUnits(s[p]) /\ Len(ret[p]) = 2
        /\ Cardinality(DOMAIN ret[p][1].Pairs) = 2
        /\ Cardinality(DOMAIN ret[p][2].Pairs) = 1

\* '"' + body + '"' where body holds no quote
IsQuotedForm(str) ==
    /\ Len(str) >= 2 /\ str[1] = Quote /\ str[Len(str)] = Quote
    /\ \A k \in 2..(Len(str) - 1) : str[k] # Quote
QuotedBody(str) == SubSeq(str, 2, Len(str) - 1)

\* C5: for every s without a double quote, parsing '"' + s + '"' succeeds
\* with exactly one Value, whose Primary is s and whose Pairs is empty.
C5_QuotedForm ==
    \A p \in Calls :
        Done(p) /\ IsQuotedForm(s[p])
            => /\ err[p] = NoError
               /\ ret[p] = <<[Primary |-> QuotedBody(s[p]), Pairs |-> EmptyPairs]>>

\* a quoted string of delimiters, whitespace and a backslash has been parsed
C5_Witness ==
    \E p \in Calls :
        /\ Done(p) /\ IsQuotedForm(s[p])
        /\ \E k \in 2..(Len(s[p]) - 1) : s[p][k] \in DelimiterBytes \cup {" "}
        /\ \E k \in 2..(Len(s[p]) - 1) : s[p][k] = Backslash

\* C6: the empty input and every input of whitespace only yield an empty
\* ValueList and no error.
C6_WhitespaceOnly ==
    \A p \in Calls :
        Done(p) /\ OnlyWhitespace(s[p]) => ret[p] = <<>> /\ err[p] = NoError

\* an input of several whitespace runes, one of them of two bytes, has been
\* parsed
C6_Witness ==
    \E p \in Calls :
        /\ Done(p) /\ OnlyWhitespace(s[p]) /\ Len(s[p]) = MaxLen
        /\ \E k \in 1..Len(s[p]) : s[p][k] = "xC2"
        /\ \E k \in 1..Len(s[p]) : s[p][k] = " "

\* C7: whenever ParseValueList returns an error, the ValueList it returns
\* is nil, whatever was parsed before the malformed position.
C7_NoPartialList ==
    \A p \in Calls : Failed(p) => ret[p] = <<>>

\* a call failed after it had appended a Value to its list
C7_Witness ==
    \E p \in Calls : Failed(p) /\ Len(vals[p]) > 0

\* the only quote of str opens an element: it stands at the start or after
\* a delimiter, whitespace aside, behind tokens, delimiters and spaces only
UnterminatedAtElement(str) ==
    \E k \in 1..Len(str) :
        /\ str[k] = Quote
        /\ \A m \in 1..Len(str) : str[m] = Quote => m = k
        /\ \A m \in 1..(k - 1) : str[m] \in TokenBytes \cup DelimiterBytes \cup {" "}
        /\ LET before == TrimRight(SubSeq(str, 1, k - 1))
           IN  Len(before) = 0 \/ before[Len(before)] \in DelimiterBytes

\* C8: ParseQuotedString fails on every input that starts with a quote and
\* holds no second one, and ParseValueList fails whenever an element
\* position starts with such an unterminated quoted string.
C8_UnterminatedQuote ==
    \A p \in Calls :
        Done(p) =>
            /\ (/\ Len(s[p]) > 0 /\ s[p][1] = Quote
                /\ \A k \in 2..Len(s[p]) : s[p][k] # Quote)
                   => ParseQuotedString(s[p]).err # NoError
            /\ UnterminatedAtElement(s[p]) => Failed(p)

\* str is a token, optional spaces, and then a character that is none of
\* ',', ';' and '='
StrayAfterFirstElement(str) ==
    \E n \in 1..Len(str) :
        /\ IsToken(SubSeq(str, 1, n))
        /\ LET rest == TrimLeft(SubSeq(str, n + 1, Len(str)))
           IN  /\ Len(rest) > 0
               /\ \/ rest[1] \in {Backslash, Quote}
                  \/ rest[1] \in TokenBytes /\ str[n + 1] = " "

\* C9: ParseValueList fails with an unexpected-delimiter error whenever the
\* character after an element and its whitespace exists and is none of
\* ',', ';' and '=', wherever in the input that character stands.
C9_UnexpectedDelimiter ==
    \A p \in Calls :
        Done(p) /\ StrayAfterFirstElement(s[p])
            => err[p].kind = "unexpected delimiter"

RECURSIVE JoinWith(_, _)
JoinWith(pieces, d) ==
    IF Len(pieces) = 0 THEN <<>>
    ELSE IF Len(pieces) = 1 THEN pieces[1]
    ELSE pieces[1] \o <<d>> \o JoinWith(Tail(pieces), d)

\* the pairs of a Value written as key=value, in some order of the keys
RECURSIVE PairPieces(_, _)
PairPieces(pairs, keys) ==
    IF keys = {} THEN <<>>
    ELSE LET k == CHOOSE x \in keys : TRUE
         IN  <<k \o <<"=">> \o pairs[k]>> \o PairPieces(pairs, keys \ {k})

\* a Value written as its primary and its pairs, joined with ';'
SerializeValue(v) ==
    JoinWith((IF Len(v.Primary) > 0 THEN <<v.Primary>> ELSE <<>>)
                 \o PairPieces(v.Pairs, DOMAIN v.Pairs), ";")

\* a ValueList written as its Values, joined with ','
Serialize(vl) == JoinWith([k \in 1..Len(vl) |-> SerializeValue(vl[k])], ",")

\* the caller of call 1 passes what it got back, serialized, to a new call
Reparse ==
    /\ Len(s) = 1 /\ Succeeded(1)
    /\ s' = Append(s, Serialize(ret[1]))
    /\ i' = Append(i, 0)
    /\ vals' = Append(vals, <<>>)
    /\ val' = Append(val, NewValue)
    /\ pc' = Append(pc, "outer")
    /\ ret' = Append(ret, <<>>)
    /\ err' = Append(err, NoError)
    /\ UNCHANGED others

NextRoundTrip == Reparse \/ \E p \in 1..MaxCalls : OuterLoop(p) \/ InnerLoop(p)

\* a generated header is parsed, and then the serialized result
SpecRoundTrip == InitUnits /\ [][NextRoundTrip]_vars

\* C11: when an input parses without error, the serialized result (Values
\* joined with ',', primary and key=value pairs joined with ';') parses
\* without error to the same ValueList.
C11_RoundTrip ==
    Len(s) = 2 /\ Done(2) => Succeeded(2) /\ ret[2] = ret[1]

(***************************************************************************)
(* Calls of different inputs, running at the same time.                    *)
(***************************************************************************)
ConcBytes == {"a", ",", ";", "=", Quote}

\* header values of the shapes the tests use
ConcHeaders ==
    { <<"a", "=", "a", ",", "a", "=", "a">>,
      <<"a", ",", " ", "a">>,
      <<"a", ";", " ", "a", "=", "a">>,
      <<Quote, "a", Quote, ",", " ", "a">>,
      <<"a", "=", "a", ";", "a", "=">>,
      <<"a", "=", Quote, "a">> }

\* two calls: one of a header, one of any input
InitConc ==
    \E x \in ConcHeaders, y \in StringsUpTo(ConcBytes, MaxConcLen) :
        Start(<<x, y>>)

SpecConc == InitConc /\ [][Next]_vars

\* what one call does from cursor j when no other call runs: at == "outer"
\* is the top of the outer loop and at == "inner" the top of the inner loop
RECURSIVE RunFrom(_, _, _, _, _)
RunFrom(str, j, vl, v, at) ==
    IF at = "outer"
    THEN IF j >= Len(str)
         THEN [pc |-> "done", ret |-> ReturnList(vl).ret, err |-> ReturnList(vl).err]
         ELSE RunFrom(str, j, vl, NewValue, "inner")
    ELSE LET o == InnerBody(str, j, v)
         IN  CASE o.kind = "breakOuter" ->
                    [pc |-> "done", ret |-> ReturnList(vl).ret, err |-> ReturnList(vl).err]
               [] o.kind = "error" ->
                    [pc |-> "done", ret |-> ReturnError(vl, o.err).ret,
                     err |-> ReturnError(vl, o.err).err]
               [] o.kind = "break" -> RunFrom(str, o.i, Append(vl, o.val), o.val, "outer")
               [] o.kind = "continue" -> RunFrom(str, o.i, vl, o.val, "inner")
               [] o.kind = "panic" -> [pc |-> "panic", ret |-> <<>>, err |-> NoError]

RunAlone(str) == RunFrom(str, 0, <<>>, NewValue, "outer")

\* the cursor and the result structures of call p
Local(p) == <<i[p], vals[p], val[p], pc[p], ret[p], err[p]>>

\* C12: when calls run with their steps interleaved, a step of one call
\* leaves the cursor and the result structures of every other call alone,
\* and each call ends as it ends when it runs alone on its input.
C12_Concurrent ==
    /\ [](\A p \in Calls :
              pc[p] \in {"done", "panic"}
                  => [pc |-> pc[p], ret |-> ret[p], err |-> err[p]] = RunAlone(s[p]))
    /\ [][\A p \in Calls, q \in Calls :
              p # q /\ Local(p)' # Local(p) => Local(q)' = Local(q)]_vars

\* call 1 has returned a list of two Values while call 2, of another input,
\* is in the middle of its run
C12_Witness ==
    /\ Len(s) = 2 /\ s[1] # s[2]
    /\ Succeeded(1) /\ Len(ret[1]) = 2
    /\ pc[2] = "inner" /\ i[2] > 0

(***************************************************************************)
(* requesturi: Middleware with the rewriter Forwarded.  fwd holds the      *)
(* request (tls: r.TLS != nil, host: r.Host, forwarded: the values of the  *)
(* Forwarded header), the index k of the header value at hand, r.URL as    *)
(* url and, once the wrapped handler runs, the URL it sees as seen.        *)
(* applyForwarded parses with ParseValueList as call 1.                    *)
(***************************************************************************)
HeaderHost == <<"h", "o", "s", "t">>
HeaderProto == <<"p", "r", "o", "t", "o">>
SchemeHttp == <<"h", "t", "t", "p">>
SchemeHttps == <<"h", "t", "t", "p", "s">>

\* strings.ToLower, on the letters in use
ToLower(str) ==
    [k \in DOMAIN str |-> IF str[k] = "H" THEN "h"
                          ELSE IF str[k] = "P" THEN "p" ELSE str[k]]

\* the URL after the defaults of Middleware
DefaultURL(tls, host) ==
    [Scheme |-> IF tls THEN SchemeHttps ELSE SchemeHttp, Host |-> host]

\* the URLs that the loop over the Pairs of v can leave behind: the order
\* in which a map is ranged over is not fixed, so of two keys that differ
\* in case only either can be the later one
ApplyPairs(v, u) ==
    LET hosts  == {v.Pairs[k] : k \in {x \in DOMAIN v.Pairs : ToLower(x) = HeaderHost}}
        protos == {ToLower(v.Pairs[k]) :
                       k \in {x \in DOMAIN v.Pairs : ToLower(x) = HeaderProto}}
                      \cap {SchemeHttp, SchemeHttps}
    IN  {[Scheme |-> sc, Host |-> h] :
             sc \in (IF protos = {} THEN {u.Scheme} ELSE protos),
             h \in (IF hosts = {} THEN {u.Host} ELSE hosts)}

\* the URLs that the loop over vl can leave behind, from the URLs us
RECURSIVE ApplyValues(_, _)
ApplyValues(vl, us) ==
    IF Len(vl) = 0 THEN us
    ELSE ApplyValues(Tail(vl), UNION {ApplyPairs(vl[1], u) : u \in us})

\* Middleware, up to the rewriters: the defaults
MiddlewareDefaults ==
    /\ fwd.pc = "start"
    /\ fwd' = [fwd EXCEPT !.pc = "rewrite",
                          !.url = DefaultURL(fwd.tls, fwd.host)]
    /\ UNCHANGED <<s, i, vals, val, pc, ret, err, comp, resp, sess, cors>>

\* Forwarded takes the next header value and applyForwarded passes it to
\* ParseValueList, unless it is empty
Forwarded ==
    /\ fwd.pc = "rewrite"
    /\ fwd.k <= Len(fwd.forwarded)
    /\ IF fwd.forwarded[fwd.k] = <<>>
       THEN /\ fwd' = [fwd EXCEPT !.k = @ + 1]
            /\ UNCHANGED <<s, i, vals, val, pc, ret, err>>
       ELSE /\ fwd' = [fwd EXCEPT !.pc = "parsing"]
            /\ s' = <<fwd.forwarded[fwd.k]>>
            /\ i' = <<0>>
            /\ vals' = << <<>> >>
            /\ val' = <<NewValue>>
            /\ pc' = <<"outer">>
            /\ ret' = << <<>> >>
            /\ err' = <<NoError>>
    /\ UNCHANGED <<comp, resp, sess, cors>>

\* applyForwarded after ParseValueList: the error is logged, and the pairs
\* of the list returned are applied
applyForwarded ==
    /\ fwd.pc = "parsing"
    /\ pc[1] \in {"done", "panic"}
    /\ IF pc[1] = "panic"
       THEN fwd' = [fwd EXCEPT !.pc = "panic"]
       ELSE \E u \in ApplyValues(ret[1], {fwd.url}) :
                fwd' = [fwd EXCEPT !.pc = "rewrite", !.k = @ + 1, !.url = u]
    /\ UNCHANGED <<s, i, vals, val, pc, ret, err, comp, resp, sess, cors>>

\* Middleware after the rewriters: the wrapped handler is served
ServeRewritten ==
    /\ fwd.pc = "rewrite"
    /\ fwd.k > Len(fwd.forwarded)
    /\ fwd' = [fwd EXCEPT !.pc = "served", !.seen = fwd.url]
    /\ UNCHANGED <<s, i, vals, val, pc, ret, err, comp, resp, sess, cors>>

NextForwarded ==
    \/ MiddlewareDefaults
    \/ Forwarded
    \/ applyForwarded
    \/ ServeRewritten
    \/ \E p \in 1..MaxCalls : OuterLoop(p) \/ InnerLoop(p)

\* parameters of a Forwarded header, and what a broken proxy may put last
FwdAtoms ==
    { HeaderProto \o <<"=">> \o SchemeHttps,
      <<"P", "r", "o", "t", "o", "=">> \o SchemeHttp,
      HeaderHost \o <<"=", "b">>,
      HeaderProto \o <<"=", "b">> }
FwdTails == {<<>>, <<"=">>, <<Quote>>}

RECURSIVE FwdRender(_, _, _)
FwdRender(atoms, seps, k) ==
    IF k = Len(atoms) THEN atoms[k]
    ELSE atoms[k] \o <<seps[k]>> \o FwdRender(atoms, seps, k + 1)

\* header values: the empty one, and parameters joined by ',' or ';'
FwdValues ==
    {<<>>} \cup
    UNION { { FwdRender(atoms, seps, 1) \o tail :
                  atoms \in [1..n -> FwdAtoms],
                  seps \in [1..(n - 1) -> {",", ";"}],
                  tail \in FwdTails } : n \in 1..MaxFwdAtoms }

\* well-formed header values that stand before the one of interest
FwdBefore ==
    { HeaderProto \o <<"=">> \o SchemeHttps,
      HeaderHost \o <<"=", "b">>,
      HeaderProto \o <<"=">> \o SchemeHttp \o <<";">> \o HeaderHost \o <<"=", "b">> }

InitForwarded ==
    \E tls \in BOOLEAN, n \in 0..MaxFwdBefore :
        \E before \in [1..n -> FwdBefore], h \in FwdValues :
            /\ fwd = [pc |-> "start", tls |-> tls, host |-> <<"a">>,
                      forwarded |-> before \o <<h>>, k |-> 1,
                      url |-> [Scheme |-> <<>>, Host |-> <<>>],
                      seen |-> [Scheme |-> <<>>, Host |-> <<>>]]
            /\ s = <<>> /\ i = <<>> /\ vals = <<>> /\ val = <<>>
            /\ pc = <<>> /\ ret = <<>> /\ err = <<>>
            /\ comp = Off /\ resp = Off /\ sess = Off /\ cors = Off

SpecForwarded == InitForwarded /\ [][NextForwarded]_vars

\* C13: when ParseValueList fails on a Forwarded header value, applying
\* that value leaves Scheme and Host of the URL as they were, and a request
\* whose only Forwarded value is malformed is served with the default URL.
C13_MalformedForwarded ==
    /\ [](fwd.pc = "served" /\ Len(fwd.forwarded) = 1 /\ Len(s) = 1 /\ err[1] # NoError
              => fwd.seen = DefaultURL(fwd.tls, fwd.host))
    /\ [][fwd.pc = "parsing" /\ pc[1] = "done" /\ err[1] # NoError
              => fwd'.url = fwd.url]_vars

\* a header value has failed to parse after a host parameter was read from
\* it, and an earlier header value has changed the URL
C13_Witness ==
    /\ fwd.pc = "parsing" /\ Len(s) = 1 /\ pc[1] = "done" /\ err[1] # NoError
    /\ \E k \in 1..Len(vals[1]) : HeaderHost \in DOMAIN vals[1][k].Pairs
    /\ fwd.url # DefaultURL(fwd.tls, fwd.host)

(***************************************************************************)
(* Compose.  A handler is written as the sequence of the middlewares       *)
(* wrapped around the final handler, the innermost first: mw(h) is         *)
(* Append(h, mw).  A middleware appends to order before and after it       *)
(* serves the handler it wraps, as the middlewares of TestCompose do.      *)
(* comp holds the middlewares given, the loop index k, the handler h built *)
(* so far, the number depth of wrappers around the handler that is being   *)
(* served, and order.                                                      *)
(***************************************************************************)
MiddlewareNames == {"mw1", "mw2", "mw3"}

compVars == <<s, i, vals, val, pc, ret, err, fwd, resp, sess, cors>>

\* ComposeLoop with the middlewares taken in outer-to-inner order
ComposeLoopOuterFirst ==
    /\ comp.pc = "compose"
    /\ comp.k <= Len(comp.middlewares)
    /\ comp' = [comp EXCEPT !.h = <<comp.middlewares[comp.k]>> \o @, !.k = @ + 1]
    /\ UNCHANGED compVars

\* one pass of the loop of Compose: h = mw(h)
ComposeLoop ==
    /\ comp.pc = "compose"
    /\ comp.k <= Len(comp.middlewares)
    /\ comp' = [comp EXCEPT !.h = Append(@, comp.middlewares[comp.k]), !.k = @ + 1]
    /\ UNCHANGED compVars

\* Compose returns h, and the caller serves a request with it
ComposeReturn ==
    /\ comp.pc = "compose"
    /\ comp.k > Len(comp.middlewares)
    /\ comp' = [comp EXCEPT !.pc = "before", !.depth = Len(comp.h)]
    /\ UNCHANGED compVars

\* the outermost wrapper not yet entered does its pre-processing and serves
\* the handler it wraps
MiddlewareBefore ==
    /\ comp.pc = "before"
    /\ comp.depth > 0
    /\ comp' = [comp EXCEPT !.order = Append(@, <<"before", comp.h[comp.depth]>>),
                            !.depth = @ - 1]
    /\ UNCHANGED compVars

\* the final handler
FinalHandler ==
    /\ comp.pc = "before"
    /\ comp.depth = 0
    /\ comp' = [comp EXCEPT !.order = Append(@, <<"handler">>),
                            !.depth = 1,
                            !.pc = IF Len(comp.h) = 0 THEN "done" ELSE "after"]
    /\ UNCHANGED compVars

\* the handler a wrapper has served returns, and the wrapper does its
\* post-processing
MiddlewareAfter ==
    /\ comp.pc = "after"
    /\ comp' = [comp EXCEPT !.order = Append(@, <<"after", comp.h[comp.depth]>>),
                            !.depth = @ + 1,
                            !.pc = IF comp.depth = Len(comp.h) THEN "done" ELSE "after"]
    /\ UNCHANGED compVars

NextCompose ==
    \/ ComposeLoop
    \/ ComposeReturn
    \/ MiddlewareBefore
    \/ FinalHandler
    \/ MiddlewareAfter

InitCompose ==
    \E n \in 0..MaxMiddlewares :
        \E mws \in [1..n -> MiddlewareNames] :
            /\ comp = [pc |-> "compose", middlewares |-> mws, k |-> 1,
                       h |-> <<>>, depth |-> 0, order |-> <<>>]
            /\ s = <<>> /\ i = <<>> /\ vals = <<>> /\ val = <<>>
            /\ pc = <<>> /\ ret = <<>> /\ err = <<>>
            /\ fwd = Off /\ resp = Off /\ sess = Off /\ cors = Off

SpecCompose == InitCompose /\ [][NextCompose]_vars

\* what order holds after b(a(h)) has served one request, for the
\* middlewares <<a, .., b>>
ExpectedOrder(mws) ==
    LET n == Len(mws)
    IN  [k \in 1..n |-> <<"before", mws[n + 1 - k]>>]
            \o << <<"handler">> >>
            \o [k \in 1..n |-> <<"after", mws[k]>>]

\* C14: the handler Compose(m0, .., mn-1)(h) serves a request as
\* mn-1(..(m0(h))) does: pre-processing from the last middleware given down
\* to the first, h once, post-processing from the first up to the last; and
\* at no time has the final handler run twice.
C14_ComposeOrder ==
    /\ comp.pc = "done" => comp.order = ExpectedOrder(comp.middlewares)
    /\ comp.pc # "off" =>
           Cardinality({k \in 1..Len(comp.order) : comp.order[k] = <<"handler">>}) <= 1

\* a request has been served through three middlewares, the first and the
\* last of them different
C14_Witness ==
    /\ comp.pc = "done"
    /\ Len(comp.middlewares) = 3
    /\ comp.middlewares[1] # comp.middlewares[3]

(***************************************************************************)
(* bufferedresponse.ResponseWriter and the writers it is replayed on.      *)
(* A header is a function from the header keys to the sequence of values   *)
(* added under the key.  A target is a recorder as the tests use it: code  *)
(* is 0 until WriteHeader is called, and sent is the header as it stood    *)
(* then.  resp holds a buffered writer buf that a handler writes to (n     *)
(* writes so far) and the targets.                                         *)
(***************************************************************************)
StatusOK == 200
StatusCreated == 201
StatusNotImplemented == 501

HeaderKeys == {"Content-Type", "Content-Length", "X-Custom"}
HeaderValues == {"text/plain", "application/json"}
BodyBytes == {"x", "y"}

NoHeader == [h \in HeaderKeys |-> <<>>]

\* var buf bufferedresponse.ResponseWriter
NewBuffered == [statusCode |-> 0, header |-> NoHeader, body |-> <<>>]

\* httptest.NewRecorder()
NewRecorder == [code |-> 0, header |-> NoHeader, sent |-> NoHeader, body |-> <<>>]

\* target.WriteHeader(code): the first call sends the header
TargetWriteHeader(t, code) ==
    IF t.code # 0 THEN t ELSE [t EXCEPT !.code = code, !.sent = t.header]

\* target.Write(b): sends the header with 200 if it has not been sent
TargetWrite(t, b) ==
    [TargetWriteHeader(t, StatusOK) EXCEPT !.body = @ \o b]

\* ResponseWriter.WriteTo: the headers are added to the target's, the status
\* code is written and the body is written with bytes.Buffer.WriteTo, which
\* reads the buffer out
WriteTo(w, t) ==
    LET t1 == [t EXCEPT !.header = [h \in HeaderKeys |-> t.header[h] \o w.header[h]]]
        t2 == TargetWriteHeader(t1, IF w.statusCode # 0 THEN w.statusCode ELSE StatusOK)
    IN  IF Len(w.body) > 0
        THEN [w |-> [w EXCEPT !.body = <<>>], t |-> TargetWrite(t2, w.body)]
        ELSE [w |-> w, t |-> t2]

respVars == <<s, i, vals, val, pc, ret, err, fwd, comp, sess, cors>>

\* the fields of resp, as they are before anything has run
RespIdle ==
    [pc |-> "idle", buf |-> NewBuffered, n |-> 0, targets |-> <<>>,
     helper |-> "Send", dev |-> FALSE, caller |-> <<>>,
     opts |-> <<>>, k |-> 1, sbuf |-> NewBuffered, serr |-> "nil", applied |-> <<>>,
     eh |-> "nil", herr |-> "nil", ehCalls |-> <<>>]

\* w.WriteHeader(sc) on the buffered writer
BufWriteHeader ==
    /\ resp.pc = "handler" /\ resp.n < MaxWrites
    /\ \E sc \in {StatusCreated, StatusNotImplemented} :
           resp' = [resp EXCEPT !.buf.statusCode = sc, !.n = @ + 1]
    /\ UNCHANGED respVars

\* w.Header().Add(h, v) on the buffered writer
BufHeaderAdd ==
    /\ resp.pc = "handler" /\ resp.n < MaxWrites
    /\ \E h \in HeaderKeys, v \in HeaderValues :
           resp' = [resp EXCEPT !.buf.header[h] = Append(@, v), !.n = @ + 1]
    /\ UNCHANGED respVars

\* w.Write(b) on the buffered writer
BufWrite ==
    /\ resp.pc = "handler" /\ resp.n < MaxWrites
    /\ \E b \in BodyBytes :
           resp' = [resp EXCEPT !.buf.body = Append(@, b), !.n = @ + 1]
    /\ UNCHANGED respVars

\* br.WriteTo(rw) with a new recorder rw
Replay ==
    /\ resp.pc \in {"handler", "replay"}
    /\ Len(resp.targets) < MaxTargets
    /\ LET o == WriteTo(resp.buf, NewRecorder)
       IN  resp' = [resp EXCEPT !.pc = "replay", !.buf = o.w,
                                !.targets = Append(@, o.t)]
    /\ UNCHANGED respVars

NextBuffered == BufWriteHeader \/ BufHeaderAdd \/ BufWrite \/ Replay

InitBuffered ==
    /\ resp = [RespIdle EXCEPT !.pc = "handler"]
    /\ s = <<>> /\ i = <<>> /\ vals = <<>> /\ val = <<>>
    /\ pc = <<>> /\ ret = <<>> /\ err = <<>>
    /\ fwd = Off /\ comp = Off /\ sess = Off /\ cors = Off

SpecBuffered == InitBuffered /\ [][NextBuffered]_vars

\* C16: every WriteTo of a buffered response, the first and any later one,
\* delivers the same status code, headers and body to its target.
C16_Replay ==
    resp.pc = "replay" =>
        \A j \in 1..Len(resp.targets) : resp.targets[j] = resp.targets[1]

(***************************************************************************)
(* response: Send and the helpers built on it.  An Option is written as a  *)
(* record; ApplyOption is what the function it stands for does to the      *)
(* writer it is given.  resp holds the helper called and the caller's      *)
(* options, the options opts passed on to Send, the index k of the next    *)
(* option, Send's buffer sbuf, the options applied so far (by index) and   *)
(* the error serr that Send returns; the target is targets[1].             *)
(***************************************************************************)
StatusNoContent == 204
StatusNotModified == 304
StatusForbidden == 403
StatusNotFound == 404
StatusInternalServerError == 500

Option(kind, sc, h, v, overwrite, body) ==
    [kind |-> kind, sc |-> sc, h |-> h, v |-> v, overwrite |-> overwrite, body |-> body]

StatusCode(sc) == Option("StatusCode", sc, "", "", FALSE, <<>>)
AddHeader(h, v) == Option("AddHeader", 0, h, v, FALSE, <<>>)
SetHeader(h, v, overwrite) == Option("SetHeader", 0, h, v, overwrite, <<>>)
WriteBody(buf) == Option("WriteBody", 0, "", "", FALSE, buf)
\* an Option of the caller that adds a header and returns an error
FailingOption == Option("Failing", 0, "X-Custom", "text/plain", FALSE, <<>>)

\* strconv.Itoa, for the lengths that occur
Itoa(n) == <<"0", "1", "2", "3", "4", "5", "6", "7", "8", "9", "10", "11", "12">>[n + 1]

\* http.StatusText
StatusText(sc) ==
    IF sc = StatusForbidden THEN <<"F", "o", "r", "b", "i", "d", "d", "e", "n">>
    ELSE <<"N", "o", "t", " ", "F", "o", "u", "n", "d">>

\* buildErrorResponse(err): the error's text (the stack is left out)
ErrorText == <<"k", "a", "b", "o", "o", "m">>

\* the function StatusCode(sc) returns, with every call writing the header
ApplyStatusCodeAlways(sc, w) == [w EXCEPT !.statusCode = sc]

\* the function StatusCode(sc) returns
ApplyStatusCode(sc, w) ==
    IF w.statusCode # 0 THEN w ELSE [w EXCEPT !.statusCode = sc]

\* opt(&buf, r)
ApplyOption(o, w) ==
    CASE o.kind = "StatusCode" -> [w |-> ApplyStatusCode(o.sc, w), err |-> "nil"]
      [] o.kind = "AddHeader" ->
           [w |-> [w EXCEPT !.header[o.h] = Append(@, o.v)], err |-> "nil"]
      [] o.kind = "SetHeader" ->
           [w |-> IF Len(w.header[o.h]) > 0 /\ ~o.overwrite THEN w
                  ELSE [w EXCEPT !.header[o.h] = <<o.v>>],
            err |-> "nil"]
      [] o.kind = "WriteBody" -> [w |-> [w EXCEPT !.body = @ \o o.body], err |-> "nil"]
      [] o.kind = "Failing" ->
           [w |-> [w EXCEPT !.header[o.h] = Append(@, o.v)], err |-> "kaboom"]

\* the options PlainText passes to Send
PlainTextOptions(body, opts) ==
    opts \o << SetHeader("Content-Type", "text/plain", FALSE),
               SetHeader("Content-Length", Itoa(Len(body)), TRUE),
               WriteBody(body) >>

\* the options NoContent passes to Send
NoContentOptions(opts) ==
    opts \o << SetHeader("Content-Length", "0", TRUE), StatusCode(StatusNoContent) >>

\* the options a helper passes to Send when it is called with opts
HelperOptions(helper, dev, opts) ==
    CASE helper = "Send" -> opts
      [] helper = "Error" ->
           IF dev
           THEN PlainTextOptions(ErrorText, Append(opts, StatusCode(StatusInternalServerError)))
           ELSE Append(opts, StatusCode(StatusInternalServerError))
      [] helper = "Forbidden" ->
           PlainTextOptions(StatusText(StatusForbidden), Append(opts, StatusCode(StatusForbidden)))
      [] helper = "NotFound" ->
           PlainTextOptions(StatusText(StatusNotFound), Append(opts, StatusCode(StatusNotFound)))
      [] helper = "NotModified" -> NoContentOptions(Append(opts, StatusCode(StatusNotModified)))
      [] helper = "NoContent" -> NoContentOptions(opts)

\* a helper is called: it passes its options to Send, which makes its buffer
CallHelper ==
    /\ resp.pc = "call"
    /\ resp' = [resp EXCEPT !.pc = "send",
                            !.opts = HelperOptions(resp.helper, resp.dev, resp.caller),
                            !.k = 1, !.sbuf = NewBuffered, !.applied = <<>>]
    /\ UNCHANGED respVars

\* the loop of Send with the error of an option dropped
SendApplyContinue ==
    /\ resp.pc = "send"
    /\ resp.k <= Len(resp.opts)
    /\ LET o == ApplyOption(resp.opts[resp.k], resp.sbuf)
       IN  resp' = [resp EXCEPT !.sbuf = o.w, !.applied = Append(@, resp.k), !.k = @ + 1]
    /\ UNCHANGED respVars

\* one pass of the loop of Send: the next option is applied to the buffer,
\* and its error is returned
SendApply ==
    /\ resp.pc = "send"
    /\ resp.k <= Len(resp.opts)
    /\ LET o == ApplyOption(resp.opts[resp.k], resp.sbuf)
       IN  IF o.err # "nil"
           THEN resp' = [resp EXCEPT !.sbuf = o.w, !.applied = Append(@, resp.k),
                                     !.serr = o.err, !.pc = "sent"]
           ELSE resp' = [resp EXCEPT !.sbuf = o.w, !.applied = Append(@, resp.k),
                                     !.k = @ + 1]
    /\ UNCHANGED respVars

\* Send after the loop: return buf.WriteTo(w)
SendWriteTo ==
    /\ resp.pc = "send"
    /\ resp.k > Len(resp.opts)
    /\ LET o == WriteTo(resp.sbuf, resp.targets[1])
       IN  resp' = [resp EXCEPT !.sbuf = o.w, !.targets[1] = o.t,
                                !.serr = "nil", !.pc = "sent"]
    /\ UNCHANGED respVars

NextSend == CallHelper \/ SendApply \/ SendWriteTo

Helpers == {"Send", "Error", "Forbidden", "NotFound", "NotModified", "NoContent"}

\* the options a caller passes
CallerOptions ==
    { StatusCode(StatusCreated), StatusCode(StatusNotImplemented),
      AddHeader("X-Custom", "text/plain"),
      SetHeader("Content-Type", "application/json", FALSE),
      WriteBody(<<"x">>), FailingOption }

\* a helper is called with a new recorder and some options; DevMode is of
\* interest for Error only
InitSend ==
    \E helper \in Helpers, dev \in BOOLEAN, n \in 0..MaxOpts :
        \E caller \in [1..n -> CallerOptions] :
            /\ dev => helper = "Error"
            /\ resp = [RespIdle EXCEPT !.pc = "call", !.helper = helper, !.dev = dev,
                                       !.caller = caller, !.targets = <<NewRecorder>>]
            /\ s = <<>> /\ i = <<>> /\ vals = <<>> /\ val = <<>>
            /\ pc = <<>> /\ ret = <<>> /\ err = <<>>
            /\ fwd = Off /\ comp = Off /\ sess = Off /\ cors = Off

SpecSend == InitSend /\ [][NextSend]_vars

\* the indices of the StatusCode options, and of the failing options, in opts
StatusCodeAt(opts) == {k \in 1..Len(opts) : opts[k].kind = "StatusCode"}
FailingAt(opts) == {k \in 1..Len(opts) : opts[k].kind = "Failing"}
Least(ks) == CHOOSE k \in ks : \A m \in ks : k <= m

\* the code of the first StatusCode option in opts, 0 if there is none
FirstStatusCode(opts) ==
    IF StatusCodeAt(opts) = {} THEN 0 ELSE opts[Least(StatusCodeAt(opts))].sc

\* the status a helper sends when the caller passes no StatusCode
DefaultStatus(helper) ==
    CASE helper = "Send" -> StatusOK
      [] helper = "Error" -> StatusInternalServerError
      [] helper = "Forbidden" -> StatusForbidden
      [] helper = "NotFound" -> StatusNotFound
      [] helper = "NotModified" -> StatusNotModified
      [] helper = "NoContent" -> StatusNoContent

C18_OptionError ==
    resp.pc = "sent" /\ FailingAt(resp.opts) # {} =>
        /\ resp.serr = "kaboom"
        /\ resp.applied = [k \in 1..Least(FailingAt(resp.opts)) |-> k]
        /\ resp.targets[1] = NewRecorder

\* Forbidden has returned the error of the caller's second option, which
\* followed an option that wrote a body
C18_Witness ==
    /\ resp.pc = "sent" /\ resp.serr = "kaboom" /\ resp.helper = "Forbidden"
    /\ Len(resp.caller) = 2
    /\ resp.caller[1].kind = "WriteBody" /\ resp.caller[2].kind = "Failing"
    /\ Len(resp.sbuf.body) > 0

(***************************************************************************)
(* errmux: the handler that ServeMux.decorate makes.  The handler writes   *)
(* to buf and returns herr; targets[1] is the writer w of the request; eh  *)
(* is the field ErrorHandler ("nil", "default" for defaultErrorHandler or  *)
(* "custom" for the handler of TestServeMux); ehCalls lists the calls of   *)
(* an error handler with the writer and the error they were given.         *)
(***************************************************************************)
\* h.ServeHTTP(&buf, r) returns
HandlerReturn ==
    /\ resp.pc = "handler"
    /\ \E e \in {"nil", "kaboom"} :
           resp' = [resp EXCEPT !.pc = "returned", !.herr = e]
    /\ UNCHANGED respVars

\* the error handler h is called with the writer w and the error: the one
\* of TestServeMux writes a status code, defaultErrorHandler calls
\* response.Error
CallErrorHandler(r, h) ==
    IF h = "custom"
    THEN [r EXCEPT !.ehCalls = Append(@, [handler |-> h, w |-> "w", err |-> r.herr]),
                   !.targets[1] = TargetWriteHeader(@, StatusNotImplemented),
                   !.pc = "done"]
    ELSE [r EXCEPT !.ehCalls = Append(@, [handler |-> h, w |-> "w", err |-> r.herr]),
                   !.helper = "Error", !.caller = <<>>,
                   !.pc = "call"]

\* decorate with the buffer written to w whatever the handler returned
DecorateAlwaysReplay ==
    /\ resp.pc = "returned"
    /\ LET o == WriteTo(resp.buf, resp.targets[1])
           r == [resp EXCEPT !.buf = o.w, !.targets[1] = o.t]
       IN  IF resp.herr = "nil"
           THEN resp' = [r EXCEPT !.pc = "done"]
           ELSE resp' = CallErrorHandler(r, IF resp.eh = "nil" THEN "default" ELSE resp.eh)
    /\ UNCHANGED respVars

\* decorate after the handler has returned
Decorate ==
    /\ resp.pc = "returned"
    /\ IF resp.herr = "nil"
       THEN LET o == WriteTo(resp.buf, resp.targets[1])
            IN  resp' = [resp EXCEPT !.buf = o.w, !.targets[1] = o.t, !.pc = "done"]
       ELSE resp' = CallErrorHandler(resp, IF resp.eh = "nil" THEN "default" ELSE resp.eh)
    /\ UNCHANGED respVars

NextErrmux ==
    \/ BufWriteHeader
    \/ BufHeaderAdd
    \/ BufWrite
    \/ HandlerReturn
    \/ Decorate
    \/ CallHelper
    \/ SendApply
    \/ SendWriteTo

InitErrmux ==
    \E eh \in {"nil", "default", "custom"}, dev \in BOOLEAN :
        /\ resp = [RespIdle EXCEPT !.pc = "handler", !.eh = eh, !.dev = dev,
                                   !.targets = <<NewRecorder>>]
        /\ s = <<>> /\ i = <<>> /\ vals = <<>> /\ val = <<>>
        /\ pc = <<>> /\ ret = <<>> /\ err = <<>>
        /\ fwd = Off /\ comp = Off /\ sess = Off /\ cors = Off

SpecErrmux == InitErrmux /\ [][NextErrmux]_vars

\* what an error handler leaves on a writer that nothing was written to
ErrorResponse(h, dev) ==
    IF h = "custom"
    THEN [NewRecorder EXCEPT !.code = StatusNotImplemented]
    ELSE IF ~dev
    THEN [NewRecorder EXCEPT !.code = StatusInternalServerError]
    ELSE LET hd == [NoHeader EXCEPT !["Content-Type"] = <<"text/plain">>,
                                    !["Content-Length"] = <<"6">>]
         IN  [code |-> StatusInternalServerError, header |-> hd, sent |-> hd,
              body |-> ErrorText]

\* C15: nothing reaches the writer of the request while the handler runs;
\* when the handler has returned an error, the error handler (the default
\* one if the field is nil) has been called once with that writer and that
\* error, and the writer holds the error handler's response only; when it
\* has returned nil, the buffered status (200 if none), headers and body are
\* written to the writer and no error handler is called.
C15_ErrorDiscardsResponse ==
    /\ [](/\ resp.pc \in {"handler", "returned"} =>
                 resp.targets[1] = NewRecorder /\ resp.ehCalls = <<>>
          /\ resp.pc \in {"done", "sent"} /\ resp.herr # "nil" =>
                 /\ resp.ehCalls = << [handler |-> IF resp.eh = "nil" THEN "default" ELSE resp.eh,
                                       w |-> "w", err |-> resp.herr] >>
                 /\ resp.targets[1] =
                        ErrorResponse(IF resp.eh = "nil" THEN "default" ELSE resp.eh, resp.dev)
          /\ resp.pc = "done" /\ resp.herr = "nil" => resp.ehCalls = <<>>)
    /\ [][resp.pc = "returned" /\ resp.herr = "nil" =>
              resp'.targets[1] =
                  [code |-> IF resp.buf.statusCode # 0 THEN resp.buf.statusCode ELSE StatusOK,
                   header |-> resp.buf.header, sent |-> resp.buf.header,
                   body |-> resp.buf.body]]_vars

\* a handler that wrote a status code, a header and a body has returned an
\* error to a ServeMux whose ErrorHandler is nil, and the default error
\* handler has answered
C15_Witness ==
    /\ resp.pc = "sent" /\ resp.herr = "kaboom" /\ resp.eh = "nil"
    /\ resp.buf.statusCode # 0 /\ Len(resp.buf.body) > 0
    /\ resp.buf.header # NoHeader

(***************************************************************************)
(* session: the middleware of NewMiddleware, one client and a store.       *)
(* Sessions are objects, objs[o] holding the id and the data (a request    *)
(* counter, as in the Example) of object o; store maps an id to the object *)
(* stored under it (0: none); ids are taken in turn from 1..MaxIds, as     *)
(* GenerateSessionID never returns an id twice.  The client keeps the      *)
(* cookie of the last response in jar, with the session the handler of     *)
(* that request was given and the data it left.  A request carries cookie  *)
(* (-1: none, 0: an id the store never issued); ctx is the session in the  *)
(* request's context, events what the middleware has done for the request, *)
(* status and setCookie (-1: none) what the response carries.              *)
(***************************************************************************)
sessVars == <<s, i, vals, val, pc, ret, err, fwd, comp, resp, cors>>

NoCookie == -1

\* Store.Load(id) of the in-memory store: the object stored under id, 0
\* with ErrSessionNotFound
Load(store, id) == IF id \in DOMAIN store THEN store[id] ELSE 0

\* Store.Store(ses) of the in-memory store: object o is stored under its
\* id, and under no other id
StoreSession(store, objs, o) ==
    [x \in DOMAIN store |-> IF x = objs[o].id THEN o
                            ELSE IF store[x] = o THEN 0 ELSE store[x]]

\* the client makes a request: without a cookie, with the cookie of the
\* last response, or with an id the store has never issued
SendRequest ==
    /\ sess.pc = "idle"
    /\ sess.nreq < MaxRequests
    /\ sess.nid < MaxIds
    /\ \E c \in {NoCookie, 0, sess.jar.id} :
           sess' = [sess EXCEPT !.pc = "request", !.nreq = @ + 1, !.cookie = c,
                                !.fromJar = (c # NoCookie /\ c = sess.jar.id),
                                !.ctx = 0, !.events = <<>>, !.status = 0,
                                !.setCookie = NoCookie, !.steps = 0]
    /\ UNCHANGED sessVars

\* the middleware up to handler.ServeHTTP, for the outcomes load and create
\* of Store.Load and Store.Create ("ok" or "error", an error other than
\* ErrSessionNotFound)
ServeOutcome(load, create) ==
    LET loaded == IF sess.cookie = NoCookie THEN 0 ELSE Load(sess.store, sess.cookie)
        ev1    == IF sess.cookie = NoCookie THEN <<>>
                  ELSE IF load = "error" THEN << <<"Load", "error">> >>
                  ELSE IF loaded = 0 THEN << <<"Load", "not found">> >>
                  ELSE << <<"Load", "ok">> >>
        id     == sess.nid + 1
        o      == Len(sess.objs) + 1
    IN  IF sess.cookie # NoCookie /\ load = "error"
        THEN [sess EXCEPT !.pc = "idle", !.events = ev1,
                          !.status = StatusInternalServerError]
        ELSE IF loaded # 0
        THEN [sess EXCEPT !.pc = "handler", !.ctx = loaded,
                          !.events = ev1 \o << <<"handler", loaded>> >>,
                          !.setCookie = sess.objs[loaded].id]
        ELSE IF create = "error"
        THEN [sess EXCEPT !.pc = "idle", !.events = ev1 \o << <<"Create", "error">> >>,
                          !.status = StatusInternalServerError]
        ELSE [sess EXCEPT !.pc = "handler", !.ctx = o, !.nid = id,
                          !.objs = Append(@, [id |-> id, data |-> 0]),
                          !.store[id] = o,
                          !.events = ev1 \o << <<"Create", "ok">>, <<"handler", o>> >>,
                          !.setCookie = id]

\* the middleware with the returns after http.Error left out: a request
\* goes on to the next step after a failure of the store
ServeSessionNoReturn ==
    /\ sess.pc = "request"
    /\ \E load \in {"ok", "error"}, create \in {"ok", "error"} :
           LET r == ServeOutcome("ok", "ok")
               f == (sess.cookie # NoCookie /\ load = "error")
                        \/ (r.events[1] # <<"Load", "ok">> /\ create = "error")
           IN  sess' = IF f THEN [r EXCEPT !.status = StatusInternalServerError,
                                           !.events = << <<"Load", "error">> >> \o @]
                       ELSE r
    /\ UNCHANGED sessVars

\* the middleware up to handler.ServeHTTP: the session is loaded or
\* created, the cookie is set and the session is put into the context
ServeSession ==
    /\ sess.pc = "request"
    /\ \E load \in {"ok", "error"}, create \in {"ok", "error"} :
           sess' = ServeOutcome(load, create)
    /\ UNCHANGED sessVars

\* the handler counts the request in its session
HandlerSet ==
    /\ sess.pc = "handler"
    /\ sess.steps < MaxHandlerSteps
    /\ sess' = [sess EXCEPT !.objs[sess.ctx].data = @ + 1, !.steps = @ + 1]
    /\ UNCHANGED sessVars

\* the handler calls RenewID on its session
HandlerRenewID ==
    /\ sess.pc = "handler"
    /\ sess.steps < MaxHandlerSteps
    /\ sess.nid < MaxIds
    /\ sess' = [sess EXCEPT !.objs[sess.ctx].id = sess.nid + 1, !.nid = @ + 1,
                            !.steps = @ + 1]
    /\ UNCHANGED sessVars

\* the handler returns: the middleware stores the session, and the client
\* receives the response with its cookie
HandlerDone ==
    /\ sess.pc = "handler"
    /\ sess' = [sess EXCEPT !.pc = "idle",
                            !.store = StoreSession(sess.store, sess.objs, sess.ctx),
                            !.events = Append(@, <<"Store", sess.ctx>>),
                            !.status = StatusOK,
                            !.jar = [id |-> sess.setCookie, o |-> sess.ctx,
                                     data |-> sess.objs[sess.ctx].data]]
    /\ UNCHANGED sessVars

NextSession ==
    \/ SendRequest
    \/ ServeSession
    \/ HandlerSet
    \/ HandlerRenewID
    \/ HandlerDone

InitSession ==
    /\ sess = [pc |-> "idle", nreq |-> 0, nid |-> 0, objs |-> <<>>,
               store |-> [x \in 1..MaxIds |-> 0],
               jar |-> [id |-> NoCookie, o |-> 0, data |-> 0],
               cookie |-> NoCookie, fromJar |-> FALSE, ctx |-> 0, events |-> <<>>,
               status |-> 0, setCookie |-> NoCookie, steps |-> 0]
    /\ s = <<>> /\ i = <<>> /\ vals = <<>> /\ val = <<>>
    /\ pc = <<>> /\ ret = <<>> /\ err = <<>>
    /\ fwd = Off /\ comp = Off /\ resp = Off /\ cors = Off

SpecSession == InitSession /\ [][NextSession]_vars

\* C19: a handler that is invoked for a request carrying the cookie of the
\* last response is given the session of that response's request, with the
\* data its handler left; one invoked for a request without a cookie, or
\* with a cookie whose id the store does not know, is given a newly created
\* session, and the cookie of the response carries that session's id.
C19_SameSession ==
    sess.pc = "handler" /\ sess.steps = 0 =>
        /\ sess.fromJar =>
               sess.ctx = sess.jar.o /\ sess.objs[sess.ctx].data = sess.jar.data
        /\ sess.cookie \in {NoCookie, 0} =>
               /\ <<"Create", "ok">> \in {sess.events[k] : k \in 1..Len(sess.events)}
               /\ sess.objs[sess.ctx].data = 0
               /\ sess.setCookie = sess.objs[sess.ctx].id

\* C20: when Load fails with an error other than ErrSessionNotFound or
\* Create fails, the response is 500 and neither the handler nor Store is
\* called; when the handler is invoked the context holds a session, and
\* once the request is over Store has been called with that session, after
\* the handler.
C20_StoreFailure ==
    LET evs == {sess.events[k] : k \in 1..Len(sess.events)}
        n   == Len(sess.events)
    IN  /\ (<<"Load", "error">> \in evs \/ <<"Create", "error">> \in evs) =>
               /\ sess.status = StatusInternalServerError
               /\ \A k \in 1..n : sess.events[k][1] \notin {"handler", "Store"}
        /\ (\E k \in 1..n : sess.events[k][1] = "handler") =>
               /\ sess.ctx # 0
               /\ <<"handler", sess.ctx>> \in evs
               /\ sess.pc = "idle" =>
                      /\ sess.events[n] = <<"Store", sess.ctx>>
                      /\ sess.events[n - 1] = <<"handler", sess.ctx>>

\* the store did not know the id of the cookie and then failed to create a
\* session
C20_Witness ==
    /\ sess.pc = "idle"
    /\ sess.events = << <<"Load", "not found">>, <<"Create", "error">> >>
    /\ sess.status = StatusInternalServerError


\* ---------------------------------------------------------------------
\* package cors: Middleware

MaxEndpoints == 2

corsVars == <<s, i, vals, val, pc, ret, err, fwd, comp, resp, sess>>

MethodGet == "GET"
MethodOptions == "OPTIONS"
Wildcard == "*"

ResponseHeaderAllowOrigin == "Access-Control-Allow-Origin"
ResponseHeaderAllowMethods == "Access-Control-Allow-Methods"
ResponseHeaderAllowHeaders == "Access-Control-Allow-Headers"
ResponseHeaderAllowCredentials == "Access-Control-Allow-Credentials"

ResponseHeaders ==
    {ResponseHeaderAllowOrigin, ResponseHeaderAllowMethods,
     ResponseHeaderAllowHeaders, ResponseHeaderAllowCredentials}

\* http.Header.Get: the first value of the header, "" when there is none
HeaderGet(values) == IF values = <<>> THEN "" ELSE values[1]

\* strings.HasPrefix
HasPrefix(str, prefix) ==
    Len(prefix) <= Len(str) /\ SubSeq(str, 1, Len(prefix)) = prefix

\* strings.Join(elems, ", ")
JoinComma(elems) == JoinWith([k \in 1..Len(elems) |-> <<elems[k]>>], ", ")

Endpoint(path, origins, methods, headers, credentials) ==
    [Path |-> path, AllowOrigins |-> origins, AllowMethods |-> methods,
     AllowHeaders |-> headers, AllowCredentials |-> credentials]

allEndpoint == Endpoint(<<>>, <<>>, <<>>, <<>>, FALSE)

allowsOrigin(e, origin) ==
    IF Len(e.AllowOrigins) = 0 THEN TRUE
    ELSE IF Len(e.AllowOrigins) = 1 /\ e.AllowOrigins[1] = Wildcard THEN TRUE
    ELSE \E k \in 1..Len(e.AllowOrigins) : e.AllowOrigins[k] = origin

\* findEndpoint: the first endpoint whose Path is a prefix of the request's
\* path; without any endpoint the default endpoint applies
findEndpoint(path, endpoints) ==
    LET ks == {k \in 1..Len(endpoints) : HasPrefix(path, endpoints[k].Path)}
    IN  IF Len(endpoints) = 0 THEN [endpoint |-> allEndpoint, ok |-> TRUE]
        ELSE IF ks # {} THEN [endpoint |-> endpoints[Least(ks)], ok |-> TRUE]
        ELSE [endpoint |-> allEndpoint, ok |-> FALSE]

isCrossOrigin(r) == HeaderGet(r.Origin) # ""

isPreflight(r) == r.Method = MethodOptions

\* w.Header().Add
HeaderAdd(w, key, value) == [w EXCEPT !.header[key] = Append(@, value)]

\* the headers cors.Middleware adds for an endpoint that allows the origin
AllowHeaders(w, e, origin) ==
    LET w1 == HeaderAdd(w, ResponseHeaderAllowOrigin, origin)
        w2 == IF Len(e.AllowMethods) > 0
              THEN HeaderAdd(w1, ResponseHeaderAllowMethods, JoinComma(e.AllowMethods))
              ELSE w1
        w3 == IF Len(e.AllowHeaders) > 0
              THEN HeaderAdd(w2, ResponseHeaderAllowHeaders, JoinComma(e.AllowHeaders))
              ELSE w2
    IN  IF e.AllowCredentials
        THEN HeaderAdd(w3, ResponseHeaderAllowCredentials, "true")
        ELSE w3

\* a middleware that answers a pre-flight request only when an endpoint
\* matched
MiddlewarePreflightOfEndpoint(c) ==
    LET r == c.r
        f == findEndpoint(r.Path, c.endpoints)
        origin == HeaderGet(r.Origin)
        w1 == IF f.ok /\ allowsOrigin(f.endpoint, origin)
              THEN AllowHeaders(c.w, f.endpoint, origin)
              ELSE c.w
    IN  IF ~isCrossOrigin(r) THEN [c EXCEPT !.pc = "handler"]
        ELSE IF f.ok /\ isPreflight(r)
        THEN [c EXCEPT !.pc = "done", !.w = TargetWriteHeader(w1, StatusNoContent)]
        ELSE [c EXCEPT !.pc = "handler", !.w = w1]

\* the handler that cors.Middleware returns, up to the call of the wrapped
\* handler
Middleware(c) ==
    LET r == c.r
        f == findEndpoint(r.Path, c.endpoints)
        origin == HeaderGet(r.Origin)
        w1 == IF f.ok /\ allowsOrigin(f.endpoint, origin)
              THEN AllowHeaders(c.w, f.endpoint, origin)
              ELSE c.w
    IN  IF ~isCrossOrigin(r) THEN [c EXCEPT !.pc = "handler"]
        ELSE IF isPreflight(r)
        THEN [c EXCEPT !.pc = "done", !.w = TargetWriteHeader(w1, StatusNoContent)]
        ELSE [c EXCEPT !.pc = "handler", !.w = w1]

CorsServeHTTP ==
    /\ cors.pc = "request"
    /\ cors' = Middleware(cors)
    /\ UNCHANGED corsVars

\* the wrapped handler: it writes status 200 and a body, and the middleware
\* returns
CorsHandler ==
    /\ cors.pc = "handler"
    /\ cors' = [cors EXCEPT !.pc = "done", !.forwarded = @ + 1,
                            !.w = TargetWrite(TargetWriteHeader(@, StatusOK), <<"x">>)]
    /\ UNCHANGED corsVars

NextCors == CorsServeHTTP \/ CorsHandler

Origins == {"https://a", "https://b"}

\* the request's Origin header: missing, with an empty value, or naming an
\* origin
OriginHeaders == {<<>>, <<"">>} \cup {<<o>> : o \in Origins}

RequestPaths == {<<"/">>, <<"/", "a", "/", "x">>, <<"/", "b">>}

\* the endpoints a program configures: a path and either the defaults or a
\* restriction of origins, with or without the other headers
EndpointPool ==
    {Endpoint(p, o, <<>>, <<>>, FALSE) :
        p \in {<<"/", "a">>, <<"/", "b", "c">>},
        o \in {<<>>, <<Wildcard>>, <<"https://a">>, <<Wildcard, "https://a">>}}
    \cup
    {Endpoint(p, o, <<"GET", "POST">>, <<"Authorization">>, TRUE) :
        p \in {<<"/">>, <<"/", "a">>},
        o \in {<<>>, <<"https://b", "https://a">>}}

InitCors ==
    /\ \E m \in {MethodGet, MethodOptions}, o \in OriginHeaders, p \in RequestPaths,
          es \in StringsUpTo(EndpointPool, MaxEndpoints) :
            cors = [pc |-> "request",
                    r |-> [Method |-> m, Origin |-> o, Path |-> p],
                    endpoints |-> es,
                    w |-> [code |-> 0, header |-> [h \in ResponseHeaders |-> <<>>],
                           sent |-> [h \in ResponseHeaders |-> <<>>], body |-> <<>>],
                    forwarded |-> 0]
    /\ s = <<>> /\ i = <<>> /\ vals = <<>> /\ val = <<>>
    /\ pc = <<>> /\ ret = <<>> /\ err = <<>>
    /\ fwd = Off /\ comp = Off /\ resp = Off /\ sess = Off

SpecCors == InitCors /\ [][NextCors]_vars

\* the endpoint that applies to the request and allows its origin, if any
Applies(e) ==
    /\ \/ cors.endpoints = <<>> /\ e = allEndpoint
       \/ \E k \in 1..Len(cors.endpoints) :
            /\ e = cors.endpoints[k]
            /\ HasPrefix(cors.r.Path, e.Path)
            /\ \A m \in 1..(k - 1) : ~HasPrefix(cors.r.Path, cors.endpoints[m].Path)
    /\ \/ e.AllowOrigins \in {<<>>, <<Wildcard>>}
       \/ HeaderGet(cors.r.Origin) \in {e.AllowOrigins[k] : k \in 1..Len(e.AllowOrigins)}

\* C21: a request with method OPTIONS whose Origin header has a value is
\* answered with status 204 and is not forwarded to the wrapped handler,
\* whether or not an endpoint matches or allows the origin; every other
\* request is forwarded exactly once; Access-Control-Allow-Origin is sent
\* only when the request has an origin and the endpoint that applies allows
\* it, and then it names that origin.
C21_Preflight ==
    LET preflight == cors.r.Method = MethodOptions /\ HeaderGet(cors.r.Origin) # ""
    IN  cors.pc = "done" =>
            /\ preflight => cors.w.code = StatusNoContent /\ cors.forwarded = 0
                            /\ cors.w.body = <<>>
            /\ ~preflight => cors.forwarded = 1 /\ cors.w.code = StatusOK
            /\ cors.w.sent[ResponseHeaderAllowOrigin] # <<>> =>
                   /\ HeaderGet(cors.r.Origin) # ""
                   /\ \E e \in EndpointPool \cup {allEndpoint} : Applies(e)
                   /\ cors.w.sent[ResponseHeaderAllowOrigin] = cors.r.Origin

\* a pre-flight request for a path that no endpoint matches has been
\* answered
C21_Witness ==
    /\ cors.pc = "done"
    /\ cors.r.Method = MethodOptions /\ HeaderGet(cors.r.Origin) # ""
    /\ cors.endpoints # <<>>
    /\ ~findEndpoint(cors.r.Path, cors.endpoints).ok
    /\ cors.w.code = StatusNoContent


\* ---------------------------------------------------------------------
\* ParseValueList: the elements of one unit

\* the last piece of ps that binds the key of ps[k]
LastOccurrence(ps, k) ==
    CHOOSE m \in k..Len(ps) :
        /\ KeyOf(ps[m]) = KeyOf(ps[k])
        /\ \A n \in (m + 1)..Len(ps) : KeyOf(ps[n]) # KeyOf(ps[k])

FirstUnit(str) == SplitOn(SplitOn(str, ",")[1], ";")

\* C23: a Value whose unit starts with a key=value pair has an empty
\* Primary: an unkeyed element that follows the pair in the unit does not
\* become the Primary.
C23_PrimaryFirst ==
    \A p \in Calls :
        Succeeded(p) /\ Len(ret[p]) >= 1 /\ IsPair(FirstUnit(s[p])[1])
            => ret[p][1].Primary = <<>>


\* C24: when the end of the input is reached at the top of the inner loop
\* and the Value in progress holds a primary or a pair, the list returned
\* is the list so far with that Value appended.
C24_CommitAtEnd ==
    [][\A p \in Calls :
          /\ pc[p] = "inner" /\ pc'[p] = "done" /\ err'[p] = NoError
          /\ val[p] # NewValue
          => ret'[p] = Append(vals[p], val[p])]_vars


\* ---------------------------------------------------------------------
\* ParseToken, ParseQuotedString and tokenOrQuotedString, called on their
\* own.  pc[p] names the function that call p is about to enter and, after
\* the call, the function that has returned; ret[p] and err[p] hold what it
\* returned and i[p] the number of bytes tokenOrQuotedString reported.

Functions == {"ParseToken", "ParseQuotedString", "tokenOrQuotedString"}

Returned(f) ==
    CASE f = "ParseToken" -> "ParseToken returned"
      [] f = "ParseQuotedString" -> "ParseQuotedString returned"
      [] f = "tokenOrQuotedString" -> "tokenOrQuotedString returned"

CallParseToken(p) ==
    /\ p \in Calls
    /\ pc[p] = "ParseToken"
    /\ ret' = [ret EXCEPT ![p] = ParseToken(s[p])]
    /\ pc' = [pc EXCEPT ![p] = Returned("ParseToken")]
    /\ UNCHANGED <<s, i, vals, val, err>>
    /\ UNCHANGED others

CallParseQuotedString(p) ==
    /\ p \in Calls
    /\ pc[p] = "ParseQuotedString"
    /\ LET q == ParseQuotedString(s[p])
       IN  /\ ret' = [ret EXCEPT ![p] = q.r]
           /\ err' = [err EXCEPT ![p] = q.err]
    /\ pc' = [pc EXCEPT ![p] = Returned("ParseQuotedString")]
    /\ UNCHANGED <<s, i, vals, val>>
    /\ UNCHANGED others

CallTokenOrQuotedString(p) ==
    /\ p \in Calls
    /\ pc[p] = "tokenOrQuotedString"
    /\ LET e == tokenOrQuotedString(s[p])
       IN  /\ ret' = [ret EXCEPT ![p] = e.v]
           /\ i' = [i EXCEPT ![p] = e.l]
           /\ err' = [err EXCEPT ![p] = e.err]
    /\ pc' = [pc EXCEPT ![p] = Returned("tokenOrQuotedString")]
    /\ UNCHANGED <<s, vals, val>>
    /\ UNCHANGED others

NextElement ==
    \E p \in 1..MaxCalls :
        CallParseToken(p) \/ CallParseQuotedString(p) \/ CallTokenOrQuotedString(p)

\* one call of one of the functions, with any input
InitElement ==
    \E x \in Inputs, f \in Functions :
        /\ s = <<x>> /\ i = <<0>> /\ vals = << <<>> >> /\ val = <<NewValue>>
        /\ pc = <<f>> /\ ret = << <<>> >> /\ err = <<NoError>>
        /\ fwd = Off /\ comp = Off /\ resp = Off /\ sess = Off /\ cors = Off

SpecElement == InitElement /\ [][NextElement]_vars

\* t is the longest prefix of str that holds token characters only
LongestTokenPrefix(str, t) ==
    /\ Len(t) <= Len(str) /\ t = SubSeq(str, 1, Len(t))
    /\ \A k \in 1..Len(t) : t[k] \in TokenChars
    /\ Len(t) = Len(str) \/ str[Len(t) + 1] \notin TokenChars

\* C25: ParseToken returns the longest prefix of its input that holds token
\* characters only, which is empty when the input starts with another
\* character, and tokenOrQuotedString reports for an input without an
\* opening quote that token, the token's length in bytes as the number of
\* bytes to advance by, and no error.
C25_ParseToken ==
    \A p \in Calls :
        /\ pc[p] = Returned("ParseToken") =>
               /\ LongestTokenPrefix(s[p], ret[p])
               /\ (Len(s[p]) > 0 /\ s[p][1] \notin TokenChars => ret[p] = <<>>)
        /\ pc[p] = Returned("tokenOrQuotedString")
           /\ (Len(s[p]) = 0 \/ s[p][1] # Quote) =>
               /\ LongestTokenPrefix(s[p], ret[p])
               /\ i[p] = Len(ret[p])
               /\ err[p] = NoError

\* ParseToken has returned a token of two bytes from an input that goes on
\* with a space
C25_Witness ==
    \E p \in Calls :
        /\ pc[p] = Returned("ParseToken")
        /\ Len(ret[p]) = 2 /\ Len(s[p]) > 2 /\ s[p][3] = " "

\* the index of the first quote of str after its first byte, 0 if there is
\* none
ClosingQuote(str) ==
    LET qs == {k \in 2..Len(str) : str[k] = Quote}
    IN  IF qs = {} THEN 0 ELSE Least(qs)

\* C26: ParseQuotedString returns "" and no error for an input that does
\* not start with a double quote, also when whitespace and then a quote
\* follow; for an input that starts with a quote and holds another one it
\* returns the bytes between the first quote and the next, and no error.
C26_ParseQuotedString ==
    \A p \in Calls :
        pc[p] = Returned("ParseQuotedString") =>
            /\ (Len(s[p]) = 0 \/ s[p][1] # Quote) =>
                   ret[p] = <<>> /\ err[p] = NoError
            /\ (Len(s[p]) > 0 /\ s[p][1] = Quote /\ ClosingQuote(s[p]) # 0) =>
                   /\ ret[p] = SubSeq(s[p], 2, ClosingQuote(s[p]) - 1)
                   /\ err[p] = NoError

\* ParseQuotedString has returned from an input with a quoted string after
\* a space
C26_Witness ==
    \E p \in Calls :
        /\ pc[p] = Returned("ParseQuotedString")
        /\ Len(s[p]) = 4 /\ s[p][1] = " " /\ s[p][2] = Quote /\ s[p][4] = Quote
        /\ s[p][3] \in TokenBytes
        /\ ret[p] = <<>>

\* C27: a quote that follows a backslash ends the quoted string like any
\* other quote, and the backslash is the last byte of the content returned.
C27_BackslashOrdinary ==
    \A p \in Calls :
        /\ pc[p] = Returned("ParseQuotedString")
        /\ Len(s[p]) > 0 /\ s[p][1] = Quote
        /\ ClosingQuote(s[p]) > 2 /\ s[p][ClosingQuote(s[p]) - 1] = Backslash
        => /\ err[p] = NoError
           /\ ret[p] = SubSeq(s[p], 2, ClosingQuote(s[p]) - 1)
           /\ ret[p][Len(ret[p])] = Backslash

\* ParseQuotedString has returned from an input that goes on with a second
\* quote after the one that follows the backslash
C27_Witness ==
    \E p \in Calls :
        /\ pc[p] = Returned("ParseQuotedString")
        /\ s[p] = <<Quote, Backslash, Quote, Quote>>
        /\ ret[p] = <<Backslash>>


\* ---------------------------------------------------------------------
\* ParseValueList: progress

\* a number that every step of call p makes smaller: twice the bytes that
\* the cursor can still move by, and one more at the top of the outer loop
Measure(p) ==
    IF Done(p) THEN 0
    ELSE 2 * (Len(s[p]) + 2 - i[p]) + (IF pc[p] = "outer" THEN 1 ELSE 0)

\* C28: the cursor of a parse never decreases; a pass through the inner
\* loop starts at a cursor of at most len(s) and, unless it ends the parse,
\* leaves the cursor at least one byte further, so that there are at most
\* len(s) + 1 passes; a parse that has not returned is at the top of one of
\* its loops, where it can take a step, and every step brings it closer to
\* its return.
C28_Terminates ==
    /\ [][\A p \in Calls :
             /\ i'[p] >= i[p]
             /\ pc[p] = "inner" /\ pc'[p] \in {"inner", "outer"} => i'[p] > i[p]
             /\ pc'[p] # pc[p] \/ i'[p] # i[p] => Measure(p)' < Measure(p)]_vars
    /\ [](\A p \in Calls :
             /\ pc[p] \in {"outer", "inner", "done"}
             /\ pc[p] = "inner" => i[p] <= Len(s[p])
             /\ Measure(p) >= 0)

\* a parse has returned two Values, after two passes at least
C28_Witness ==
    \E p \in Calls : Succeeded(p) /\ Len(s[p]) = MaxLen /\ Len(ret[p]) >= 2


\* the values of the cursor at which a pass through the inner loop that
\* starts at cursor j slices or decodes s[i:], up to the statement at which
\* the pass ends
SliceCursors(str, j) ==
    LET j1 == j + consumeWhitespace(Slice(str, j))
        e  == tokenOrQuotedString(Slice(str, j1))
        j2 == j1 + e.l
        j3 == j2 + consumeWhitespace(Slice(str, j2))
        d  == DecodeRuneInString(Slice(str, j3))
        k1 == j3 + d.w
        k2 == k1 + consumeWhitespace(Slice(str, k1))
        e2 == tokenOrQuotedString(Slice(str, k2))
        k3 == k2 + e2.l
        k4 == k3 + consumeWhitespace(Slice(str, k3))
        d2 == DecodeRuneInString(Slice(str, k4))
        \* the slice of the error message at the end of the body
        last(c, k) == IF c \in {",", ";"} \/ k >= Len(str) THEN {} ELSE {k}
    IN  {j} \cup
        (IF j1 >= Len(str) THEN {}
         ELSE {j1} \cup
              (IF e.err # NoError THEN {}
               ELSE {j2, j3} \cup
                    (IF d.r # "=" THEN last(d.r, k1)
                     ELSE {k1, k2} \cup
                          (IF e2.err # NoError THEN {}
                           ELSE {k3, k4} \cup last(d2.r, k4)))))

\* C29: no parse panics, and wherever a pass through the inner loop slices
\* or decodes the input at the cursor, the cursor is between 0 and len(s).
C29_SliceInRange ==
    \A p \in Calls :
        /\ pc[p] # "panic"
        /\ pc[p] = "inner" =>
               \A k \in SliceCursors(s[p], i[p]) : 0 <= k /\ k <= Len(s[p])

\* a parse has returned with its cursor beyond the end of an input that
\* ends in a delimiter
C29_Witness ==
    \E p \in Calls :
        /\ Succeeded(p) /\ i[p] > Len(s[p])
        /\ Len(s[p]) = MaxLen /\ s[p][Len(s[p])] \in {",", ";"}


\* ---------------------------------------------------------------------
\* package session: the cookie and the stored session

\* C30: when a request that reached the handler is over, the cookie sent
\* with its response carries the id that the session of the request has,
\* and the store holds that session under this id.
C30_CookieIsStoredId ==
    sess.pc = "idle" /\ sess.status = StatusOK =>
        /\ sess.jar.id = sess.objs[sess.jar.o].id
        /\ Load(sess.store, sess.jar.id) = sess.jar.o

====
